---- MODULE Spec2Model ----
(***************************************************************************)
(* Product resource handlers of Backend/src/index.ts: getAllProducts,      *)
(* getMyProducts, getProductById, createProduct, updateProduct and         *)
(* deleteProduct, run as concurrent request tasks over a persistence layer *)
(* (../db/queries).  A handler suspends only at a persistence call, so a   *)
(* handler with two calls (updateProduct, deleteProduct) is two steps: the *)
(* lookup step and the mutation step; other requests interleave between.   *)
(***************************************************************************)
EXTENDS Integers, Sequences, FiniteSets, Bags

\* ---------------------------------------------------------------- bounds
\* Number of requests suspended between their lookup and their mutation.
MaxPending == 2

\* ---------------------------------------------------------------- values
\* Identities returned by getAuth(req); NoUser is the absent identity.
Users == {"A", "B"}
NoUser == "none"
Callers == Users \cup {NoUser}

\* JSON values of a request body field: undefined (key absent), a
\* non-string, and strings as sequences of characters.
Undefined == [type |-> "undefined", val |-> <<>>]
NonString == [type |-> "number", val |-> <<>>]
Str(s) == [type |-> "string", val |-> s]
\* The characters String.prototype.trim removes, of those used here.
Whitespace == {" "}

\* Request bodies: the three product fields and a client-supplied userId.
Body(t, d, i, u) == [title |-> t, description |-> d, imageUrl |-> i, userId |-> u]

\* The strings "a", " b", "" and " ".
ValA == Str(<<"a">>)
ValB == Str(<<" ", "b">>)
Empty == Str(<<>>)
Blank == Str(<<" ">>)

\* Bodies sent to createProduct: complete ones, with and without a userId
\* field, and ones with a missing, non-string, empty or blank field.
CreateBodies ==
  {Body(ValA, ValA, ValA, NoUser), Body(ValA, ValA, ValA, "B"),
   Body(ValA, ValA, Undefined, NoUser), Body(ValA, NonString, ValA, NoUser),
   Body(Empty, ValA, ValA, NoUser), Body(ValA, ValA, Blank, "A"),
   Body(Undefined, Undefined, Undefined, NoUser)}

\* Bodies sent to updateProduct: the empty one, with and without a userId
\* field, a partial update, and ones with one or several invalid fields.
UpdateBodies ==
  {Body(Undefined, Undefined, Undefined, NoUser),
   Body(Undefined, Undefined, Undefined, "B"),
   Body(ValB, Undefined, ValB, "B"),
   Body(Empty, ValB, Undefined, NoUser),
   Body(Blank, NonString, ValB, NoUser),
   Body(NonString, Undefined, Undefined, NoUser),
   Body(ValB, Blank, Undefined, NoUser),
   Body(Undefined, NonString, Empty, NoUser),
   Body(ValB, Undefined, NonString, NoUser),
   Body(Undefined, Undefined, Blank, NoUser),
   Body(Undefined, ValB, Empty, "A")}

\* The ids the persistence layer hands out, in the order it hands them out,
\* and the :id path parameters of the requests.  NoId is the empty id.
IdPool == <<"p1", "p2">>
Ids == {IdPool[k] : k \in DOMAIN IdPool}
NoId == ""

\* null, as returned by the persistence layer for a missing record.
Null ==
  [id |-> NoId, title |-> Undefined, description |-> Undefined,
   imageUrl |-> Undefined, userId |-> NoUser]

\* The body fields the handlers read.
Fields == {"title", "description", "imageUrl"}

\* ---------------------------------------------------------------- state
VARIABLES
  store,      \* persistence: id -> Product or Null
  nextId,     \* persistence: number of ids handed out
  pending,    \* bag of requests suspended before their mutation call
  last,       \* the request that completed last, with everything it sent
  creator,    \* history: id -> identity of the caller whose request created it
  deleted     \* history: ids for which a deleteProduct completed with 200

vars == <<store, nextId, pending, last, creator, deleted>>

\* ---------------------------------------------------------------- strings
RECURSIVE TrimStart(_)
TrimStart(s) ==
  IF s # <<>> /\ Head(s) \in Whitespace THEN TrimStart(Tail(s)) ELSE s

RECURSIVE TrimEnd(_)
TrimEnd(s) ==
  IF s # <<>> /\ s[Len(s)] \in Whitespace
  THEN TrimEnd(SubSeq(s, 1, Len(s) - 1)) ELSE s

\* String.prototype.trim
Trim(s) == TrimEnd(TrimStart(s))

\* Faulty variant of isNonEmptyString: the string is not trimmed.
isNonEmptyStringNoTrim(v) == v.type = "string" /\ Len(v.val) > 0

\* const isNonEmptyString = (v) => typeof v === 'string' && v.trim().length > 0
isNonEmptyString(v) == v.type = "string" /\ Len(Trim(v.val)) > 0

\* ---------------------------------------------------------------- responses
\* res.status(s).json({ error: e })
Error(s, e) ==
  [status |-> s, error |-> e, message |-> "", product |-> Null, products |-> {}]

\* res.status(s).json(product)
Json(s, p) ==
  [status |-> s, error |-> "", message |-> "", product |-> p, products |-> {}]

\* res.status(200).json(products)
JsonList(ps) ==
  [status |-> 200, error |-> "", message |-> "", product |-> Null, products |-> ps]

\* res.status(200).json({ message: 'Product deleted successfully' })
Deleted ==
  [status |-> 200, error |-> "", message |-> "Product deleted successfully",
   product |-> Null, products |-> {}]

\* The message of each handler's catch block.
FailMessage(op) ==
  CASE op = "getAllProducts" -> "Failed to get products"
    [] op = "getMyProducts" -> "Failed to get user products"
    [] op = "getProductById" -> "Failed to get product"
    [] op = "createProduct" -> "Failed to create product"
    [] op = "updateProduct" -> "Failed to update product"
    [] op = "deleteProduct" -> "Failed to delete product"

\* Faulty variant of Catch: the error is logged and no response is sent.
CatchSilently(sent, op) == sent

\* catch (error) { console.error(...); res.status(500).json({ error: ... }) }
Catch(sent, op) == Append(sent, Error(500, FailMessage(op)))

\* ---------------------------------------------------------------- persistence
\* queries.getAllProducts()
QGetAllProducts(st) == {st[i] : i \in Ids} \ {Null}

\* queries.getProductsByUserId(userId)
QGetProductsByUserId(st, userId) == {p \in QGetAllProducts(st) : p.userId = userId}

\* queries.getProductById(id): the record, or null when there is none
QGetProductById(st, id) == st[id]

\* queries.createProduct({title, description, imageUrl, userId}): the new record
QCreateProduct(newId, input) ==
  [id |-> newId, title |-> input.title, description |-> input.description,
   imageUrl |-> input.imageUrl, userId |-> input.userId]

\* queries.updateProduct(id, updates): the record with the given fields
\* replaced, or null when there is none
QUpdateProduct(st, id, updates) ==
  IF st[id] = Null THEN Null
  ELSE [st[id] EXCEPT
          !.title = IF updates.title # Undefined THEN updates.title ELSE @,
          !.description =
            IF updates.description # Undefined THEN updates.description ELSE @,
          !.imageUrl = IF updates.imageUrl # Undefined THEN updates.imageUrl ELSE @]

\* queries.deleteProduct(id): the store without the record
QDeleteProduct(st, id) == [st EXCEPT ![id] = Null]

\* ---------------------------------------------------------------- handler code
\* Outcome of one synchronous run of handler code: the responses sent, the
\* persistence calls made, whether one raised, and whether the handler is
\* now suspended before its mutation call.
Outcome(sent, calls, raised, suspend) ==
  [sent |-> sent, calls |-> calls, raised |-> raised, suspend |-> suspend]

\* if (!userId)
Unauthenticated(userId) == userId = NoUser

\* Faulty variant of Missing: the existence check is left out.
MissingNever(existingProduct) == FALSE

\* if (!existingProduct), if (!product)
Missing(existingProduct) == existingProduct = Null

\* Faulty variant of IsOwner: the ownership check is left out.
IsOwnerAlways(existingProduct, userId) == TRUE

\* if (existingProduct.userId !== userId), negated
IsOwner(existingProduct, userId) == existingProduct.userId = userId

\* Faulty variant of createInput: a userId in the body takes precedence.
createInputFromBody(body, userId) ==
  [title |-> body.title, description |-> body.description,
   imageUrl |-> body.imageUrl,
   userId |-> IF body.userId # NoUser THEN body.userId ELSE userId]

\* The object createProduct passes to queries.createProduct:
\* { title, description, imageUrl, userId }
createInput(body, userId) ==
  [title |-> body.title, description |-> body.description,
   imageUrl |-> body.imageUrl, userId |-> userId]

\* Faulty variant of Keys: keys holding undefined are counted.
KeysCountingUndefined(updates) == Cardinality(Fields)

\* Object.keys(updates).length
Keys(updates) ==
  Cardinality({f \in Fields : updates[f] # Undefined})

\* const updates = {}
NoUpdates == [title |-> Undefined, description |-> Undefined, imageUrl |-> Undefined]

\* Result of the field checks of updateProduct: the 400 response of the
\* failing check, or the updates object.
Rejected(resp) == [ok |-> FALSE, resp |-> resp, updates |-> NoUpdates]
Accepted(updates) == [ok |-> TRUE, resp |-> Error(0, ""), updates |-> updates]

\* Faulty variant of updatesOf: description is taken from title.
updatesOfShifted(body) ==
  [title |-> body.title, description |-> body.title, imageUrl |-> body.imageUrl]

\* updates.title = title; updates.description = description;
\* updates.imageUrl = imageUrl (each assigned only when present)
updatesOf(body) ==
  [title |-> body.title, description |-> body.description,
   imageUrl |-> body.imageUrl]

\* Faulty variant of validateUpdate: description is checked before title.
validateUpdateDescriptionFirst(body) ==
  IF body.description # Undefined /\ ~isNonEmptyString(body.description)
  THEN Rejected(Error(400, "Invalid description"))
  ELSE IF body.title # Undefined /\ ~isNonEmptyString(body.title)
  THEN Rejected(Error(400, "Invalid title"))
  ELSE IF body.imageUrl # Undefined /\ ~isNonEmptyString(body.imageUrl)
  THEN Rejected(Error(400, "Invalid imageUrl"))
  ELSE LET updates == updatesOf(body)
       IN IF Keys(updates) = 0
          THEN Rejected(Error(400, "At least one field is required"))
          ELSE Accepted(updates)

\* The field checks of updateProduct in source order, lines 133-153.
validateUpdate(body) ==
  IF body.title # Undefined /\ ~isNonEmptyString(body.title)
  THEN Rejected(Error(400, "Invalid title"))
  ELSE IF body.description # Undefined /\ ~isNonEmptyString(body.description)
  THEN Rejected(Error(400, "Invalid description"))
  ELSE IF body.imageUrl # Undefined /\ ~isNonEmptyString(body.imageUrl)
  THEN Rejected(Error(400, "Invalid imageUrl"))
  ELSE LET updates == updatesOf(body)
       IN IF Keys(updates) = 0
          THEN Rejected(Error(400, "At least one field is required"))
          ELSE Accepted(updates)

\* getAllProducts, lines 42-50
getAllProducts(st, fail) ==
  IF fail THEN Outcome(Catch(<<>>, "getAllProducts"), 1, TRUE, FALSE)
  ELSE Outcome(<<JsonList(QGetAllProducts(st))>>, 1, FALSE, FALSE)

\* getMyProducts up to its persistence call, lines 55-56.
getMyProductsChecks(userId) ==
  IF Unauthenticated(userId) THEN <<Error(401, "Unauthorized")>> ELSE <<>>

\* getMyProducts from its persistence call on, lines 58-63.
getMyProducts(st, userId, fail) ==
  IF fail THEN Outcome(Catch(<<>>, "getMyProducts"), 1, TRUE, FALSE)
  ELSE Outcome(<<JsonList(QGetProductsByUserId(st, userId))>>, 1, FALSE, FALSE)

\* getProductById up to its persistence call, lines 69-71.
getProductByIdChecks(rawId) ==
  IF rawId = NoId THEN <<Error(400, "Product id is required")>> ELSE <<>>

\* getProductById from its persistence call on, lines 72-80.
getProductById(st, rawId, fail) ==
  IF fail THEN Outcome(Catch(<<>>, "getProductById"), 1, TRUE, FALSE)
  ELSE LET product == QGetProductById(st, rawId)
       IN IF Missing(product)
          THEN Outcome(<<Error(404, "Product not found")>>, 1, FALSE, FALSE)
          ELSE Outcome(<<Json(200, product)>>, 1, FALSE, FALSE)

\* createProduct up to its persistence call, lines 86-102: the response
\* that ends the request, or none when the call is to be made.
createProductChecks(userId, body) ==
  IF Unauthenticated(userId) THEN <<Error(401, "Unauthorized")>>
  ELSE IF \/ ~isNonEmptyString(body.title)
          \/ ~isNonEmptyString(body.description)
          \/ ~isNonEmptyString(body.imageUrl)
  THEN <<Error(400, "Title, description, and imageUrl are required")>>
  ELSE <<>>

\* updateProduct up to its first persistence call, lines 121-153: the
\* response that ends the request, or none when the lookup is to be made.
updateProductChecks(userId, body) ==
  IF Unauthenticated(userId) THEN <<Error(401, "Unauthorized")>>
  ELSE LET v == validateUpdate(body)
       IN IF ~v.ok THEN <<v.resp>> ELSE <<>>

\* deleteProduct up to its first persistence call, lines 184-187.
deleteProductChecks(userId) ==
  IF Unauthenticated(userId) THEN <<Error(401, "Unauthorized")>> ELSE <<>>

\* The lookup and ownership check of updateProduct (lines 155-167) and of
\* deleteProduct (lines 189-201).
ownershipLookup(st, op, userId, id, fail, forbidden) ==
  IF fail THEN Outcome(Catch(<<>>, op), 1, TRUE, FALSE)
  ELSE LET existingProduct == QGetProductById(st, id)
       IN IF Missing(existingProduct)
          THEN Outcome(<<Error(404, "Product not found")>>, 1, FALSE, FALSE)
          ELSE IF ~IsOwner(existingProduct, userId)
          THEN Outcome(<<Error(403, forbidden)>>, 1, FALSE, FALSE)
          ELSE Outcome(<<>>, 1, FALSE, TRUE)

\* lines 155-167
updateProductLookup(st, userId, id, fail) ==
  ownershipLookup(st, "updateProduct", userId, id, fail,
                  "You can only update your own products")

\* lines 189-201
deleteProductLookup(st, userId, id, fail) ==
  ownershipLookup(st, "deleteProduct", userId, id, fail,
                  "You can only delete your own products")

\* updateProduct from its mutation call on, lines 169-178.
updateProductApply(st, id, updates, fail) ==
  IF fail THEN Outcome(Catch(<<>>, "updateProduct"), 2, TRUE, FALSE)
  ELSE Outcome(<<Json(200, QUpdateProduct(st, id, updates))>>, 2, FALSE, FALSE)

\* deleteProduct from its mutation call on, lines 203-208.
deleteProductApply(fail) ==
  IF fail THEN Outcome(Catch(<<>>, "deleteProduct"), 2, TRUE, FALSE)
  ELSE Outcome(<<Deleted>>, 2, FALSE, FALSE)

\* ---------------------------------------------------------------- requests
\* The body of a request that carries none.
NoBody == [title |-> Undefined, description |-> Undefined,
           imageUrl |-> Undefined, userId |-> NoUser]

\* A request suspended between its lookup and its mutation call, with its
\* local variables.
Suspended(op, caller, id, body, late) ==
  [op |-> op, caller |-> caller, id |-> id, body |-> body,
   updates |-> IF op = "updateProduct" THEN validateUpdate(body).updates ELSE NoUpdates,
   late |-> late]

\* The responses as recorded: a list of products by the ids of its products.
Observed(sent) ==
  [k \in DOMAIN sent |-> [sent[k] EXCEPT !.products = {p.id : p \in @}]]

\* A completed request: its inputs, what it sent and called, whether a
\* persistence call raised, whether it started after a deleteProduct on its
\* id had completed with 200 (late), and whether its mutation call found
\* the record in the store (applied).
Completed(op, caller, id, body, out, late, applied) ==
  [op |-> op, caller |-> caller, id |-> id, body |-> body,
   sent |-> Observed(out.sent), calls |-> out.calls, raised |-> out.raised,
   late |-> late, applied |-> applied]

Init ==
  /\ store = [i \in Ids |-> Null]
  /\ nextId = 0
  /\ pending = EmptyBag
  /\ last = Completed("none", NoUser, NoId, NoBody, Outcome(<<>>, 0, FALSE, FALSE),
                      FALSE, FALSE)
  /\ creator = [i \in Ids |-> NoUser]
  /\ deleted = {}

GetAllProducts ==
  \E fail \in BOOLEAN :
    /\ last' = Completed("getAllProducts", NoUser, NoId, NoBody,
                         getAllProducts(store, fail), FALSE, FALSE)
    /\ UNCHANGED <<store, nextId, pending, creator, deleted>>

\* A request that ends in the checks before its first persistence call.
Refused(op, caller, id, body, checks) ==
  /\ last' = Completed(op, caller, id, body, Outcome(checks, 0, FALSE, FALSE),
                       id \in deleted, FALSE)
  /\ UNCHANGED <<store, nextId, pending, creator, deleted>>

GetMyProducts ==
  \E caller \in Callers :
    LET checks == getMyProductsChecks(caller)
    IN IF checks # <<>>
       THEN Refused("getMyProducts", caller, NoId, NoBody, checks)
       ELSE \E fail \in BOOLEAN :
              /\ last' = Completed("getMyProducts", caller, NoId, NoBody,
                                   getMyProducts(store, caller, fail), FALSE, FALSE)
              /\ UNCHANGED <<store, nextId, pending, creator, deleted>>

GetProductById ==
  \E rawId \in {NoId} \cup Ids :
    LET checks == getProductByIdChecks(rawId)
    IN IF checks # <<>>
       THEN Refused("getProductById", NoUser, rawId, NoBody, checks)
       ELSE \E fail \in BOOLEAN :
              /\ last' = Completed("getProductById", NoUser, rawId, NoBody,
                                   getProductById(store, rawId, fail),
                                   rawId \in deleted, FALSE)
              /\ UNCHANGED <<store, nextId, pending, creator, deleted>>

CreateProduct ==
  \E caller \in Callers, body \in CreateBodies :
    LET checks == createProductChecks(caller, body)
    IN IF checks # <<>>
       THEN Refused("createProduct", caller, NoId, body, checks)
       ELSE \E fail \in BOOLEAN :
              IF fail
              THEN /\ last' = Completed("createProduct", caller, NoId, body,
                                        Outcome(Catch(<<>>, "createProduct"),
                                                1, TRUE, FALSE),
                                        FALSE, FALSE)
                   /\ UNCHANGED <<store, nextId, pending, creator, deleted>>
              ELSE /\ nextId < Len(IdPool)
                   /\ LET product == QCreateProduct(IdPool[nextId + 1],
                                                    createInput(body, caller))
                      IN /\ store' = [store EXCEPT ![product.id] = product]
                         /\ creator' = [creator EXCEPT ![product.id] = caller]
                         /\ last' = Completed("createProduct", caller, NoId, body,
                                              Outcome(<<Json(201, product)>>,
                                                      1, FALSE, FALSE),
                                              FALSE, FALSE)
                   /\ nextId' = nextId + 1
                   /\ UNCHANGED <<pending, deleted>>

\* The lookup step of updateProduct and of deleteProduct: the request ends
\* with a response, or suspends before its mutation call.
Lookup(op, caller, id, body, out) ==
  IF out.suspend
  THEN /\ BagCardinality(pending) < MaxPending
       /\ pending' = pending (+) SetToBag({Suspended(op, caller, id, body, id \in deleted)})
       /\ UNCHANGED <<store, nextId, last, creator, deleted>>
  ELSE /\ last' = Completed(op, caller, id, body, out, id \in deleted, FALSE)
       /\ UNCHANGED <<store, nextId, pending, creator, deleted>>

UpdateProductLookup ==
  \E caller \in Callers, id \in Ids, body \in UpdateBodies :
    LET checks == updateProductChecks(caller, body)
    IN IF checks # <<>>
       THEN Refused("updateProduct", caller, id, body, checks)
       ELSE \E fail \in BOOLEAN :
              Lookup("updateProduct", caller, id, body,
                     updateProductLookup(store, caller, id, fail))

DeleteProductLookup ==
  \E caller \in Callers, id \in Ids :
    LET checks == deleteProductChecks(caller)
    IN IF checks # <<>>
       THEN Refused("deleteProduct", caller, id, NoBody, checks)
       ELSE \E fail \in BOOLEAN :
              Lookup("deleteProduct", caller, id, NoBody,
                     deleteProductLookup(store, caller, id, fail))

\* The mutation step of updateProduct: the suspended request resumes with
\* queries.updateProduct and ends.
UpdateProductApply ==
  \E r \in BagToSet(pending), fail \in BOOLEAN :
    /\ r.op = "updateProduct"
    /\ pending' = pending (-) SetToBag({r})
    /\ store' = IF fail THEN store
                ELSE [store EXCEPT ![r.id] = QUpdateProduct(store, r.id, r.updates)]
    /\ last' = Completed(r.op, r.caller, r.id, r.body,
                         updateProductApply(store, r.id, r.updates, fail),
                         r.late, ~fail /\ store[r.id] # Null)
    /\ UNCHANGED <<nextId, creator, deleted>>

\* The mutation step of deleteProduct: the suspended request resumes with
\* queries.deleteProduct and ends.
DeleteProductApply ==
  \E r \in BagToSet(pending), fail \in BOOLEAN :
    /\ r.op = "deleteProduct"
    /\ pending' = pending (-) SetToBag({r})
    /\ store' = IF fail THEN store ELSE QDeleteProduct(store, r.id)
    /\ deleted' = IF fail THEN deleted ELSE deleted \cup {r.id}
    /\ last' = Completed(r.op, r.caller, r.id, r.body, deleteProductApply(fail),
                         r.late, ~fail /\ store[r.id] # Null)
    /\ UNCHANGED <<nextId, creator>>

Next ==
  \/ GetAllProducts
  \/ GetMyProducts
  \/ GetProductById
  \/ CreateProduct
  \/ UpdateProductLookup
  \/ DeleteProductLookup
  \/ UpdateProductApply
  \/ DeleteProductApply

\* Requests arrive and resume in any order; nothing is assumed of scheduling.
Spec == Init /\ [][Next]_vars

\* ---------------------------------------------------------------- properties
\* A string with a character that is not whitespace.
NonBlank(v) ==
  /\ v.type = "string"
  /\ \E k \in 1..Len(v.val) : v.val[k] \notin Whitespace

\* The only response of the request that completed last.
Status == last.sent[1].status
ErrorText == last.sent[1].error
Answered == Len(last.sent) = 1
Mutating == last.op \in {"updateProduct", "deleteProduct"}
Resumed == BagCardinality(pending') < BagCardinality(pending)

\* C1: a stored Product is changed or removed only by an updateProduct or
\* deleteProduct request whose caller identity is present and equals the
\* Product's userId; a deleteProduct by another user leaves the Product in
\* the store, where getProductById still returns it.
OwnerOnlyMutates ==
  [][/\ \A id \in Ids :
          (store[id] # Null /\ store'[id] # store[id])
            => /\ last'.op \in {"updateProduct", "deleteProduct"}
               /\ last'.id = id
               /\ last'.caller # NoUser
               /\ last'.caller = store[id].userId
     /\ ( /\ last'.op = "deleteProduct"
          /\ store[last'.id] # Null
          /\ store[last'.id].userId # last'.caller )
          => /\ store' = store
             /\ getProductById(store', last'.id, FALSE).sent
                  = <<Json(200, store[last'.id])>>]_vars

ForeignDeleteRefused ==
  /\ last.op = "deleteProduct"
  /\ last.caller \in Users
  /\ store[last.id] # Null
  /\ store[last.id].userId # last.caller
  /\ Answered /\ Status = 403

\* C2: every stored Product's userId is the identity of the caller whose
\* createProduct request created it, whatever userId the create body or a
\* later update body carried.
UserIdIsCreator ==
  \A id \in Ids : store[id] # Null => store[id].userId = creator[id]

UpdatedWithForeignUserId ==
  /\ last.op = "updateProduct"
  /\ Answered /\ Status = 200
  /\ last.applied
  /\ last.body.userId \in Users
  /\ last.body.userId # last.caller
  /\ store[last.id] # Null

\* C3: every stored Product's title, description and imageUrl is a string
\* with a non-whitespace character, and an authenticated createProduct with
\* a field that is not such a string ends with 400 and stores nothing.
FieldsNonEmpty ==
  /\ \A id \in Ids :
       store[id] # Null => \A f \in Fields : NonBlank(store[id][f])
  /\ ( /\ last.op = "createProduct"
       /\ last.caller \in Users
       /\ \E f \in Fields : ~NonBlank(last.body[f]) )
       => /\ last.sent = <<Error(400, "Title, description, and imageUrl are required")>>
          /\ last.calls = 0

BlankCreateRefused ==
  /\ last.op = "createProduct"
  /\ last.caller \in Users
  /\ last.body.imageUrl = Blank
  /\ Answered /\ Status = 400
  /\ \E id \in Ids : store[id] # Null /\ store[id].imageUrl = ValB

\* The request that completed last was made by an identified caller who is
\* not the owner of the product it names, and the product is in the store.
ByNonOwner ==
  /\ Mutating
  /\ last.caller \in Users
  /\ store[last.id] # Null
  /\ store[last.id].userId # last.caller

\* Every field present in the body is a non-blank string, and one is present.
BodyPasses(body) ==
  /\ \A f \in Fields : body[f] = Undefined \/ NonBlank(body[f])
  /\ \E f \in Fields : body[f] # Undefined

BodyEmpty(body) == \A f \in Fields : body[f] = Undefined

\* C4 as stated: updateProduct or deleteProduct by a non-owner on an
\* existing product yields 403, whatever the request body.
NonOwnerAlways403 == ByNonOwner => (Answered /\ Status = 403)

\* C4 as amended: updateProduct or deleteProduct by an identified non-owner
\* on an existing product yields 403 when the lookup does not raise and,
\* for updateProduct, the body passes the field checks; an updateProduct body
\* that fails them yields 400, and a raising lookup yields 500.
NonOwner403 ==
  ByNonOwner =>
    /\ Answered
    /\ Status = IF last.op = "updateProduct" /\ ~BodyPasses(last.body) THEN 400
                ELSE IF last.raised THEN 500
                ELSE 403

NonOwnerUpdateRefused ==
  /\ ByNonOwner
  /\ last.op = "updateProduct"
  /\ BodyPasses(last.body)
  /\ Answered /\ Status = 403

\* C5 as stated: updateProduct with none of title, description, imageUrl in
\* the body yields 400 "At least one field is required" for any caller,
\* a caller with no identity included.
EmptyUpdateAlways400 ==
  (last.op = "updateProduct" /\ BodyEmpty(last.body))
    => last.sent = <<Error(400, "At least one field is required")>>

\* C5 as amended: updateProduct with none of title, description, imageUrl
\* in the body yields 400 "At least one field is required" for any caller
\* with an identity, owner or not, whether or not the product exists; a
\* caller with no identity gets 401 "Unauthorized".
EmptyUpdate400 ==
  (last.op = "updateProduct" /\ BodyEmpty(last.body))
    => last.sent = IF last.caller \in Users
                   THEN <<Error(400, "At least one field is required")>>
                   ELSE <<Error(401, "Unauthorized")>>

EmptyUpdateByOwner ==
  /\ last.op = "updateProduct"
  /\ BodyEmpty(last.body)
  /\ store[last.id] # Null
  /\ store[last.id].userId = last.caller
  /\ Answered /\ Status = 400

\* C6 as stated: a deleteProduct request by an identified caller that starts
\* after a deleteProduct on the same id completed with 200 yields 404
\* "Product not found", and a getProductById that starts then yields 404.
LaterDeleteAlways404 ==
  /\ (last.late /\ last.op = "deleteProduct" /\ last.caller \in Users)
       => last.sent = <<Error(404, "Product not found")>>
  /\ (last.late /\ last.op = "getProductById") => (Answered /\ Status = 404)

\* C6 as amended: such a later deleteProduct yields 404 "Product not found",
\* or 500 "Failed to delete product" when its lookup raises, and never 200;
\* such a later getProductById yields 404, or 500 when its lookup raises.
LaterDelete404 ==
  /\ (last.late /\ last.op = "deleteProduct" /\ last.caller \in Users)
       => last.sent = IF last.raised THEN <<Error(500, "Failed to delete product")>>
                      ELSE <<Error(404, "Product not found")>>
  /\ (last.late /\ last.op = "getProductById")
       => last.sent = IF last.raised THEN <<Error(500, "Failed to get product")>>
                      ELSE <<Error(404, "Product not found")>>

RepeatedDelete ==
  /\ last.late
  /\ last.op = "deleteProduct"
  /\ last.caller = creator[last.id]
  /\ Answered /\ Status = 404

\* C7: every completed request sent exactly one response; when a persistence
\* call raised, that response is 500 with the handler's own message and the
\* request made no persistence call beyond those of one pass through its code.
OneResponse ==
  last.op # "none" =>
    /\ Answered
    /\ last.raised =>
         /\ Status = 500
         /\ ErrorText =
              CASE last.op = "getAllProducts" -> "Failed to get products"
                [] last.op = "getMyProducts" -> "Failed to get user products"
                [] last.op = "getProductById" -> "Failed to get product"
                [] last.op = "createProduct" -> "Failed to create product"
                [] last.op = "updateProduct" -> "Failed to update product"
                [] last.op = "deleteProduct" -> "Failed to delete product"
         /\ last.calls <= (IF Mutating THEN 2 ELSE 1)

MutationRaised ==
  /\ last.op = "updateProduct"
  /\ last.raised
  /\ last.calls = 2
  /\ Answered /\ Status = 500

\* The first of title, description, imageUrl that is present in the body and
\* is not a non-blank string; "" when there is none.
FirstInvalid(body) ==
  IF body.title # Undefined /\ ~NonBlank(body.title) THEN "title"
  ELSE IF body.description # Undefined /\ ~NonBlank(body.description) THEN "description"
  ELSE IF body.imageUrl # Undefined /\ ~NonBlank(body.imageUrl) THEN "imageUrl"
  ELSE ""

\* C8: for an identified caller, an updateProduct whose body has an invalid
\* field ends with 400 and the message of the first such field in the order
\* title, description, imageUrl, with no persistence call made, whether or
\* not the product exists or belongs to the caller.
FirstInvalidFieldWins ==
  ( /\ last.op = "updateProduct"
    /\ last.caller \in Users
    /\ FirstInvalid(last.body) # "" )
    => /\ last.sent =
            <<Error(400, CASE FirstInvalid(last.body) = "title" -> "Invalid title"
                           [] FirstInvalid(last.body) = "description" -> "Invalid description"
                           [] FirstInvalid(last.body) = "imageUrl" -> "Invalid imageUrl")>>
       /\ last.calls = 0

InvalidTitleBeforeOwnership ==
  /\ ByNonOwner
  /\ last.op = "updateProduct"
  /\ ~NonBlank(last.body.title) /\ last.body.title # Undefined
  /\ ~NonBlank(last.body.description) /\ last.body.description # Undefined
  /\ ErrorText = "Invalid title"

\* C9: the mutation step of an updateProduct that ends with 200 replaces, in
\* the Product it names, exactly the fields present in the body by the
\* body's values, keeps its other fields, its id and its userId, and leaves
\* every other Product of the store as it was.
PartialUpdate ==
  [][( /\ Resumed
       /\ last'.op = "updateProduct"
       /\ last'.sent[1].status = 200 )
       => /\ \A id \in Ids \ {last'.id} : store'[id] = store[id]
          /\ store[last'.id] = Null => store'[last'.id] = Null
          /\ store[last'.id] # Null =>
               /\ \A f \in Fields :
                    store'[last'.id][f] =
                      IF last'.body[f] # Undefined THEN last'.body[f]
                      ELSE store[last'.id][f]
               /\ store'[last'.id].id = store[last'.id].id
               /\ store'[last'.id].userId = store[last'.id].userId
               /\ last'.sent[1].product = store'[last'.id]]_vars

UpdatedBesideAnother ==
  /\ last.op = "updateProduct"
  /\ Answered /\ Status = 200
  /\ last.applied
  /\ store[last.id].title = ValB
  /\ store[last.id].description = ValA
  /\ store[last.id].imageUrl = ValB
  /\ \E id \in Ids \ {last.id} : store[id] # Null

\* C10: every 200 response of updateProduct or deleteProduct answers a
\* mutation call that found the Product in the store.
MutationFoundProduct ==
  (Mutating /\ Answered /\ Status = 200) => last.applied

====
